---- MODULE Spec2Model ----
(***************************************************************************)
(* A model of the URL-shortener bot of src/bot.py: the URL validator, the  *)
(* shortener and statistics clients, the in-memory user statistics store   *)
(* and the command / message handlers that drive them.                     *)
(*                                                                         *)
(* Python strings are TLA+ strings (sequences of characters); a Python     *)
(* dict is a record with exactly the dict's keys; an optional timestamp is *)
(* a sequence of length at most one (<<>> is None).                        *)
(***************************************************************************)
EXTENDS Integers, Sequences, FiniteSets, TLC

VARIABLES
    user_stats,      \* bot.py:34, the global dict: user id -> usage record
    expecting_bulk,  \* context.user_data['expecting_bulk'], one per user
    now,             \* the wall clock read by datetime.datetime.now()
    last,            \* observation of the operation that ran last
    hist,            \* per user, the log of the events a specification counts
    tasks            \* the handler invocations on the event loop, each with
                     \* its position and its local variables

vars == <<user_stats, expecting_bulk, now, last, hist, tasks>>

(***************************************************************************)
(* Bounds of the model.                                                    *)
(***************************************************************************)
MaxClock == 1
MaxShortened == 3
MaxStatus == 9
MaxCalls == 3
MaxCount == 2
MaxTasks == 3

Users == {1, 2}

(***************************************************************************)
(* Strings.                                                                *)
(***************************************************************************)
Char(s, i) == SubSeq(s, i, i)

Chars(s) == {Char(s, i) : i \in 1..Len(s)}

LowerLetters == Chars("abcdefghijklmnopqrstuvwxyz")
UpperLetters == Chars("ABCDEFGHIJKLMNOPQRSTUVWXYZ")
Letters == LowerLetters \cup UpperLetters
Digits == Chars("0123456789")
Whitespace == {" ", "\t", "\n", "\r"}

\* str.startswith
startswith(s, p) == Len(s) >= Len(p) /\ SubSeq(s, 1, Len(p)) = p

\* the Python test  sub in s  on two strings
Contains(s, sub) ==
    \E i \in 1..(Len(s) - Len(sub) + 1) : SubSeq(s, i, i + Len(sub) - 1) = sub

\* s[:n]
Truncate(s, n) == IF Len(s) > n THEN SubSeq(s, 1, n) ELSE s

RECURSIVE lstrip(_)
lstrip(s) ==
    IF s # "" /\ Char(s, 1) \in Whitespace THEN lstrip(Tail(s)) ELSE s

RECURSIVE rstrip(_)
rstrip(s) ==
    IF s # "" /\ Char(s, Len(s)) \in Whitespace
    THEN rstrip(SubSeq(s, 1, Len(s) - 1))
    ELSE s

\* str.strip()
strip(s) == rstrip(lstrip(s))

\* the first position from i on where s has the character c (0 when none)
RECURSIVE Find(_, _, _)
Find(s, c, i) ==
    IF i > Len(s) THEN 0 ELSE IF Char(s, i) = c THEN i ELSE Find(s, c, i + 1)

\* str.split(sep) for a one-character separator: a non-empty list of pieces
RECURSIVE split(_, _)
split(s, sep) ==
    LET i == Find(s, sep, 1) IN
    IF i = 0 THEN <<s>>
    ELSE <<SubSeq(s, 1, i - 1)>> \o split(SubSeq(s, i + 1, Len(s)), sep)

\* ' '.join(args)
RECURSIVE join(_, _)
join(sep, parts) ==
    IF parts = <<>> THEN ""
    ELSE IF Len(parts) = 1 THEN parts[1]
    ELSE parts[1] \o sep \o join(sep, Tail(parts))

\* text repeated n times
RECURSIVE Repeat(_, _)
Repeat(s, n) == IF n = 0 THEN "" ELSE s \o Repeat(s, n - 1)

(***************************************************************************)
(* is_valid_url, bot.py:39-50.  The pattern is, in order: a scheme http or  *)
(* https followed by ://, a domain of one or more dot-terminated labels    *)
(* and a top-level name of two or more letters, an optional port, an       *)
(* optional path free of whitespace, and the end of the string.  It is     *)
(* compiled with re.IGNORECASE and matched from the start of the string;   *)
(* a match is a way to cut the string into these groups.                   *)
(***************************************************************************)
ToLower(c) ==
    IF c \in UpperLetters
    THEN LET i == CHOOSE j \in 1..26 : Char("ABCDEFGHIJKLMNOPQRSTUVWXYZ", j) = c
         IN Char("abcdefghijklmnopqrstuvwxyz", i)
    ELSE c

RECURSIVE LowerCase(_)
LowerCase(s) == IF s = "" THEN "" ELSE ToLower(Char(s, 1)) \o LowerCase(Tail(s))

AllIn(s, class) == \A i \in 1..Len(s) : Char(s, i) \in class

\* https?://
MatchScheme(s) == LowerCase(s) \in {"http://", "https://"}

\* one or more labels [A-Za-z0-9-]+ each followed by a dot
RECURSIVE MatchLabels(_)
MatchLabels(s) ==
    \E j \in 2..Len(s) :
        /\ Char(s, j) = "."
        /\ AllIn(SubSeq(s, 1, j - 1), Letters \cup Digits \cup {"-"})
        /\ (j = Len(s) \/ MatchLabels(SubSeq(s, j + 1, Len(s))))

\* the labels, then [A-Za-z]{2,}
MatchDomain(s) ==
    \E k \in 1..Len(s) :
        /\ Char(s, k) = "."
        /\ Len(s) - k >= 2
        /\ AllIn(SubSeq(s, k + 1, Len(s)), Letters)
        /\ MatchLabels(SubSeq(s, 1, k))

\* optionally a colon and one or more digits
MatchPort(s) ==
    s = "" \/ (Len(s) >= 2 /\ Char(s, 1) = ":" /\ AllIn(Tail(s), Digits))

\* optionally a slash and any non-whitespace characters
MatchPath(s) ==
    s = "" \/ (Char(s, 1) = "/" /\ \A i \in 2..Len(s) : Char(s, i) \notin Whitespace)

\* $ : the end of the string, or just before a newline that ends it
MatchEnd(s) == s \in {"", "\n"}

url_pattern_match(url) ==
    \E a \in {7, 8} :
        /\ a <= Len(url)
        /\ MatchScheme(SubSeq(url, 1, a))
        /\ \E b \in a..Len(url) :
              /\ MatchDomain(SubSeq(url, a + 1, b))
              /\ \E c \in b..Len(url) :
                    /\ MatchPort(SubSeq(url, b + 1, c))
                    /\ \E d \in c..Len(url) :
                          /\ MatchPath(SubSeq(url, c + 1, d))
                          /\ MatchEnd(SubSeq(url, d + 1, Len(url)))

is_valid_url(url) == IF url = "" THEN FALSE ELSE url_pattern_match(url)

(***************************************************************************)
(* The remote API as the clients see it.  requests.get either raises or    *)
(* returns a response with a status code and a body; response.json()       *)
(* either raises (a body that is no JSON) or returns a JSON value.  A JSON *)
(* value is tagged with its kind: null, num, str, list, or obj (a function *)
(* from the keys the object has to their values).                          *)
(***************************************************************************)
J(k, v) == [k |-> k, v |-> v]
JNull == J("null", "")
JNum(n) == J("num", n)
JStr(s) == J("str", s)
JObj(f) == J("obj", f)
EmptyObj == JObj(<<>>)

\* the body of a response that is not JSON
Malformed == J("malformed", "")

Raises(type, msg) == [exc |-> type, msg |-> msg]
Response(code, body) == [status_code |-> code, body |-> body]

\* bool(x) of a JSON value
Truthy(j) ==
    CASE j.k = "null" -> FALSE
      [] j.k = "num"  -> j.v # 0
      [] j.k = "str"  -> j.v # ""
      [] j.k = "list" -> j.v # <<>>
      [] j.k = "obj"  -> DOMAIN j.v # {}

\* key in x : a TypeError on a value that is no container
InRaises(j) == j.k \in {"null", "num"}
In(key, j) ==
    CASE j.k = "obj"  -> key \in DOMAIN j.v
      [] j.k = "str"  -> Contains(j.v, key)
      [] j.k = "list" -> \E i \in 1..Len(j.v) : j.v[i] = JStr(key)

\* x.get(key, default) : an AttributeError on a value that is no dict
GetRaises(j) == j.k # "obj"
JGet(j, key, default) == IF key \in DOMAIN j.v THEN j.v[key] ELSE default

\* str(x), as an f-string formats it
PyStr(j) ==
    CASE j.k = "null" -> "None"
      [] j.k = "num"  -> ToString(j.v)
      [] j.k = "str"  -> j.v
      [] OTHER        -> "[...]"

\* result.get(key, default) on a result dict
Get(d, key, default) == IF key \in DOMAIN d THEN d[key] ELSE default

\* short_link.split('/')[-1] if '/' in short_link else short_link
ShortId(short_link) ==
    IF Contains(short_link, "/")
    THEN LET parts == split(short_link, "/") IN parts[Len(parts)]
    ELSE short_link

(***************************************************************************)
(* shorten_url_with_cuttly, bot.py:52-132.                                 *)
(***************************************************************************)
CUTTLY_API_KEY == "key"
ExcTextLimit == 100

\* error_codes with the messages of codes 3 and 4 exchanged
error_codes_exchanged ==
    (2 :> "Invalid URL") @@ (4 :> "Invalid custom alias") @@
    (3 :> "Custom alias already taken") @@ (5 :> "Invalid API key") @@
    (6 :> "Too many requests") @@ (8 :> "URL blocked by Cuttly")

\* bot.py:111-118
error_codes ==
    (2 :> "Invalid URL") @@ (3 :> "Invalid custom alias") @@
    (4 :> "Custom alias already taken") @@ (5 :> "Invalid API key") @@
    (6 :> "Too many requests") @@ (8 :> "URL blocked by Cuttly")

\* error_codes.get(status, f'Unknown error (code: {status})')
ErrorMsg(table, status) ==
    IF status.k = "num" /\ status.v \in DOMAIN table
    THEN table[status.v]
    ELSE "Unknown error (code: " \o PyStr(status) \o ")"

Return(d) == [raised |-> FALSE, value |-> d]
Raise(type, msg) == [raised |-> TRUE, value |-> Raises(type, msg)]

\* bot.py:60-66
ShortenParams(long_url, custom_alias) ==
    IF custom_alias # ""
    THEN [key |-> CUTTLY_API_KEY, short |-> long_url, name |-> custom_alias]
    ELSE [key |-> CUTTLY_API_KEY, short |-> long_url]

\* bot.py:86-96 and 97-108: a status that carries a short link
ShortLinkResult(url_data, short_link, note, missing) ==
    IF ~Truthy(short_link) THEN Return([success |-> FALSE, error |-> missing])
    ELSE IF InRaises(short_link)
    THEN Raise("TypeError", "argument of type 'int' is not iterable")
    ELSE LET base == [success |-> TRUE, short_url |-> short_link.v,
                      short_id |-> ShortId(short_link.v), full_data |-> url_data]
         IN Return(IF note = "" THEN base ELSE base @@ [message |-> note])

\* bot.py:84-124
StatusResult(url_data) ==
    LET status == JGet(url_data, "status", JNull) IN
    IF status.k = "num" /\ status.v = 7
    THEN ShortLinkResult(url_data, JGet(url_data, "shortLink", JNull), "",
                         "No short link in response")
    ELSE IF status.k = "num" /\ status.v = 1
    THEN ShortLinkResult(url_data, JGet(url_data, "shortLink", JNull),
                         "URL already shortened", "URL exists but no short link")
    ELSE Return([success |-> FALSE,
                 error |-> "Cuttly Error: " \o ErrorMsg(error_codes, status),
                 code |-> status])

\* bot.py:76-82: the checks on the decoded body
ShortenData(body) ==
    IF ~Truthy(body)
    THEN Return([success |-> FALSE, error |-> "Invalid API response"])
    ELSE IF InRaises(body)
    THEN Raise("TypeError", "argument of type 'int' is not iterable")
    ELSE IF ~In("url", body)
    THEN Return([success |-> FALSE, error |-> "Invalid API response"])
    ELSE IF GetRaises(body)
    THEN Raise("AttributeError", "'str' object has no attribute 'get'")
    ELSE LET url_data == JGet(body, "url", EmptyObj) IN
         IF ~Truthy(url_data)
         THEN Return([success |-> FALSE, error |-> "No URL data in response"])
         ELSE IF GetRaises(url_data)
         THEN Raise("AttributeError", "'str' object has no attribute 'get'")
         ELSE StatusResult(url_data)

\* ShortenParse with a body that is no JSON reported as an invalid response
ShortenParseLenient(body) ==
    IF body.k = "malformed"
    THEN Return([success |-> FALSE, error |-> "Invalid API response"])
    ELSE ShortenData(body)

\* bot.py:74: data = response.json(), which raises on a body that is no JSON
ShortenParse(body) ==
    IF body.k = "malformed"
    THEN Raise("JSONDecodeError", "Expecting value: line 1 column 1 (char 0)")
    ELSE ShortenData(body)

\* bot.py:69-72: the body of the try statement
ShortenTry(remote) ==
    IF "exc" \in DOMAIN remote THEN Raise(remote.exc, remote.msg)
    ELSE IF remote.status_code # 200
    THEN Return([success |-> FALSE,
                 error |-> "API Error: " \o ToString(remote.status_code)])
    ELSE ShortenParse(remote.body)

\* the classes the modelled exceptions are instances of
ExceptionClasses(type) ==
    CASE type = "Timeout"         -> {"Timeout", "RequestException", "Exception"}
      [] type = "ConnectionError" -> {"ConnectionError", "RequestException", "Exception"}
      [] type = "JSONDecodeError" -> {"JSONDecodeError", "RequestException", "Exception"}
      [] OTHER                    -> {type, "Exception"}

\* ShortenExcept with a last clause that catches requests' exceptions only
ShortenExceptNarrow(o) ==
    IF ~o.raised THEN o
    ELSE IF "Timeout" \in ExceptionClasses(o.value.exc)
    THEN Return([success |-> FALSE, error |-> "Request timeout. Please try again."])
    ELSE IF "ConnectionError" \in ExceptionClasses(o.value.exc)
    THEN Return([success |-> FALSE, error |-> "Connection error. Check your internet."])
    ELSE IF "RequestException" \in ExceptionClasses(o.value.exc)
    THEN Return([success |-> FALSE,
                 error |-> "Internal error: " \o Truncate(o.value.msg, ExcTextLimit)])
    ELSE o

\* bot.py:126-132: the except clauses, in order
ShortenExcept(o) ==
    IF ~o.raised THEN o
    ELSE IF "Timeout" \in ExceptionClasses(o.value.exc)
    THEN Return([success |-> FALSE, error |-> "Request timeout. Please try again."])
    ELSE IF "ConnectionError" \in ExceptionClasses(o.value.exc)
    THEN Return([success |-> FALSE, error |-> "Connection error. Check your internet."])
    ELSE IF "Exception" \in ExceptionClasses(o.value.exc)
    THEN Return([success |-> FALSE,
                 error |-> "Internal error: " \o Truncate(o.value.msg, ExcTextLimit)])
    ELSE o

\* The call's outcome (a returned dict, or an exception that leaves the
\* function) and the requests it sent.
shorten_url_with_cuttly(long_url, custom_alias, remote) ==
    IF long_url = ""
    THEN Return([success |-> FALSE, error |-> "No URL provided"]) @@ [requests |-> <<>>]
    ELSE ShortenExcept(ShortenTry(remote))
             @@ [requests |-> <<ShortenParams(long_url, custom_alias)>>]

(***************************************************************************)
(* get_url_stats, bot.py:134-200.                                          *)
(***************************************************************************)
\* bot.py:188-194
stats_error_codes ==
    (1 :> "Short URL not found") @@ (2 :> "Invalid short URL") @@
    (3 :> "Short URL not owned by user") @@ (4 :> "API key missing or invalid") @@
    (5 :> "Too many requests")

\* bot.py:169-196
StatsResult(short_id, stats_data) ==
    LET status == JGet(stats_data, "status", JNull) IN
    IF status.k = "num" /\ status.v = 1
    THEN Return([success |-> TRUE,
                 stats |-> [title |-> JGet(stats_data, "title", JStr("No title")),
                            short_url |-> JStr("https://cutt.ly/" \o short_id),
                            original_url |-> JGet(stats_data, "fullLink", JStr("Unknown")),
                            clicks |-> JGet(stats_data, "clicks", JNum(0)),
                            date |-> JGet(stats_data, "date", JStr("Unknown")),
                            facebook |-> JGet(stats_data, "facebook", JNum(0)),
                            twitter |-> JGet(stats_data, "twitter", JNum(0)),
                            instagram |-> JGet(stats_data, "instagram", JNum(0)),
                            pinterest |-> JGet(stats_data, "pinterest", JNum(0))]])
    ELSE Return([success |-> FALSE,
                 error |-> "Stats Error: " \o ErrorMsg(stats_error_codes, status)])

\* bot.py:159-167
StatsData(short_id, body) ==
    IF body.k = "malformed"
    THEN Raise("JSONDecodeError", "Expecting value: line 1 column 1 (char 0)")
    ELSE IF ~Truthy(body)
    THEN Return([success |-> FALSE, error |-> "Invalid API response"])
    ELSE IF InRaises(body)
    THEN Raise("TypeError", "argument of type 'int' is not iterable")
    ELSE IF ~In("stats", body)
    THEN Return([success |-> FALSE, error |-> "Invalid API response"])
    ELSE IF GetRaises(body)
    THEN Raise("AttributeError", "'str' object has no attribute 'get'")
    ELSE LET stats_data == JGet(body, "stats", EmptyObj) IN
         IF ~Truthy(stats_data)
         THEN Return([success |-> FALSE, error |-> "No stats data in response"])
         ELSE IF GetRaises(stats_data)
         THEN Raise("AttributeError", "'str' object has no attribute 'get'")
         ELSE StatsResult(short_id, stats_data)

\* bot.py:154-157
StatsTry(short_id, remote) ==
    IF "exc" \in DOMAIN remote THEN Raise(remote.exc, remote.msg)
    ELSE IF remote.status_code # 200
    THEN Return([success |-> FALSE,
                 error |-> "API Error: " \o ToString(remote.status_code)])
    ELSE StatsData(short_id, remote.body)

\* bot.py:198-200
StatsExcept(o) ==
    IF ~o.raised THEN o
    ELSE IF "Exception" \in ExceptionClasses(o.value.exc)
    THEN Return([success |-> FALSE,
                 error |-> "Failed to fetch stats: "
                               \o Truncate(o.value.msg, ExcTextLimit)])
    ELSE o

get_url_stats(short_url, remote) ==
    IF short_url = ""
    THEN Return([success |-> FALSE, error |-> "No URL provided"]) @@ [requests |-> <<>>]
    ELSE LET short_id == ShortId(short_url) IN
         IF short_id = ""
         THEN Return([success |-> FALSE, error |-> "Invalid short URL"])
                  @@ [requests |-> <<>>]
         ELSE StatsExcept(StatsTry(short_id, remote))
                  @@ [requests |-> <<[key |-> CUTTLY_API_KEY, stats |-> short_id]>>]


(***************************************************************************)
(* The inputs the specifications draw from.                                *)
(***************************************************************************)
Absent == J("absent", "")

\* an object with the keys, among status and shortLink, that are given
UrlData(status, short_link) ==
    (IF status = Absent THEN <<>> ELSE [status |-> status])
        @@ (IF short_link = Absent THEN <<>> ELSE [shortLink |-> short_link])

StatusValues == {JNum(n) : n \in 0..MaxStatus} \cup {JStr("7"), JNull, Absent}

ShortLinkValues ==
    {JStr("https://cutt.ly/abc1"), JStr("abc1"), JStr("https://cutt.ly/x/"),
     JStr(""), JNum(5), JNull, Absent}

UrlValues ==
    {JNull, EmptyObj, JStr("x"), JNum(1)}
        \cup {JObj(UrlData(st, sl)) : st \in StatusValues, sl \in ShortLinkValues}

Bodies ==
    {Malformed, JNull, JNum(5), JStr("url"), JStr("oops"), J("list", <<>>),
     J("list", <<JStr("url")>>), EmptyObj, JObj([error |-> JStr("x")])}
        \cup {JObj([url |-> ud]) : ud \in UrlValues}

LongText == LET x8 == "xxxxxxxx" x32 == x8 \o x8 \o x8 \o x8
            IN x32 \o x32 \o x32 \o x32

Remotes ==
    {Raises("Timeout", "timed out"), Raises("ConnectionError", "refused")}
        \cup {Raises("Exception", m) : m \in {"", "boom", LongText}}
        \cup {Response(200, b) : b \in Bodies}
        \cup {Response(c, Malformed) : c \in {404, 500}}

LongUrls == {"", "https://a.co/p", "ftp://x.com"}
Aliases == {"", "my-alias"}

(***************************************************************************)
(* The state after the module is loaded.                                   *)
(***************************************************************************)
InitState ==
    /\ user_stats = <<>>
    /\ expecting_bulk = [u \in Users |-> FALSE]
    /\ now = 0
    /\ hist = [u \in Users |-> <<>>]
    /\ tasks = <<>>

(***************************************************************************)
(* The user statistics store, bot.py:34 and 268-284.  user_stats is a      *)
(* function from the user ids that have an entry to their entries.         *)
(***************************************************************************)
NewEntry == [urls_shortened |-> 0, first_used |-> <<>>, last_used |-> <<>>]

Put(stats, user_id, entry) ==
    [u \in DOMAIN stats \cup {user_id} |-> IF u = user_id THEN entry ELSE stats[u]]

\* update_user_stats with first_used assigned on every call
update_user_stats_overwrite(stats, user_id, url_count, t) ==
    LET entry == IF user_id \in DOMAIN stats THEN stats[user_id] ELSE NewEntry
    IN Put(stats, user_id, [urls_shortened |-> entry.urls_shortened + url_count,
                            first_used |-> <<t>>, last_used |-> <<t>>])

\* update_user_stats that counts one URL whatever url_count is
update_user_stats_by_one(stats, user_id, url_count, t) ==
    LET entry == IF user_id \in DOMAIN stats THEN stats[user_id] ELSE NewEntry
        counted == [entry EXCEPT !.urls_shortened = @ + 1, !.last_used = <<t>>]
    IN Put(stats, user_id,
           IF counted.first_used = <<>>
           THEN [counted EXCEPT !.first_used = <<t>>]
           ELSE counted)

\* update_user_stats(user_id, url_count) on the store stats at time t
update_user_stats(stats, user_id, url_count, t) ==
    LET entry == IF user_id \in DOMAIN stats THEN stats[user_id] ELSE NewEntry
        counted == [entry EXCEPT !.urls_shortened = @ + url_count,
                                 !.last_used = <<t>>]
    IN Put(stats, user_id,
           IF counted.first_used = <<>>
           THEN [counted EXCEPT !.first_used = <<t>>]
           ELSE counted)

\* datetime.datetime.now() moves on
Tick ==
    /\ now < MaxClock
    /\ now' = now + 1
    /\ UNCHANGED <<user_stats, expecting_bulk, last, hist, tasks>>

(***************************************************************************)
(* SpecStore: update_user_stats called with any user and count, hist       *)
(* logging each call's count and time.                                     *)
(***************************************************************************)
RECURSIVE SumCounts(_)
SumCounts(log) == IF log = <<>> THEN 0 ELSE Head(log).count + SumCounts(Tail(log))

\* the number of events the log h holds for the users of S
RECURSIVE Logged(_, _)
Logged(h, S) ==
    IF S = {} THEN 0
    ELSE LET u == CHOOSE v \in S : TRUE IN Len(h[u]) + Logged(h, S \ {u})

InitStore == InitState /\ last = [op |-> "init"]

Record(user_id, url_count) ==
    /\ Logged(hist, Users) < MaxCalls
    /\ user_stats' = update_user_stats(user_stats, user_id, url_count, now)
    /\ hist' = [hist EXCEPT ![user_id] = Append(@, [count |-> url_count, at |-> now])]
    /\ last' = [op |-> "update_user_stats", user_id |-> user_id,
                url_count |-> url_count]
    /\ UNCHANGED <<expecting_bulk, now, tasks>>

RecordAny == \E u \in Users, c \in 0..MaxCount : Record(u, c)

NextStore == RecordAny \/ Tick

SpecStore == InitStore /\ [][NextStore]_vars


(***************************************************************************)
(* SpecShorten: shorten_url_with_cuttly applied to every input.            *)
(***************************************************************************)
InitShorten ==
    /\ InitState
    /\ last \in {[op |-> "input", long_url |-> l, custom_alias |-> a, remote |-> r] :
                    l \in LongUrls, a \in Aliases, r \in Remotes}

ShortenCall ==
    /\ last.op = "input"
    /\ last' = [op |-> "shorten_url_with_cuttly", long_url |-> last.long_url,
                custom_alias |-> last.custom_alias, remote |-> last.remote,
                out |-> shorten_url_with_cuttly(last.long_url, last.custom_alias,
                                                last.remote)]
    /\ UNCHANGED <<user_stats, expecting_bulk, now, hist, tasks>>

NextShorten == ShortenCall

SpecShorten == InitShorten /\ [][NextShorten]_vars

(***************************************************************************)
(* The handlers, bot.py:341-724.  A handler runs from its first statement  *)
(* to its last without another handler in between (the Application is      *)
(* built without concurrent updates, bot.py:847).  Each await of a send or *)
(* an edit either completes or raises; fail is the position, among the     *)
(* awaits the run reaches, of the one that raises (0 when none does).  An  *)
(* exception leaves the handler and ends the run there.                    *)
(*                                                                         *)
(* A run is what a handler did: the branch taken, the reply it chose, the  *)
(* requests sent to the shortening API and the success of each shorten     *)
(* call, the requests sent for statistics, the count handed to             *)
(* update_user_stats (<<>> when it was not called), the figures of the     *)
(* /mystats message or of the bulk report it composed, and whether an      *)
(* exception left the handler.                                             *)
(***************************************************************************)
MaxBulkUrls == 10
AliasMinLen == 3
AliasMaxLen == 30
BeginnerBelow == 5
ProAbove == 50

Run(route, reply, requests, results, stats_requests, recorded, raised) ==
    [route |-> route, reply |-> reply, requests |-> requests, results |-> results,
     stats_requests |-> stats_requests, recorded |-> recorded, shown |-> <<>>,
     raised |-> raised]

NoCalls(route, reply, raised) == Run(route, reply, <<>>, <<>>, <<>>, <<>>, raised)

\* the answer the remote gives to the i-th call of a run
RemoteAt(remote, i) ==
    IF i \in DOMAIN remote THEN remote[i] ELSE Raises("Timeout", "timed out")

RECURSIVE CountTrue(_)
CountTrue(bs) ==
    IF bs = <<>> THEN 0 ELSE (IF Head(bs) THEN 1 ELSE 0) + CountTrue(Tail(bs))

RECURSIVE StripAll(_)
StripAll(lines) ==
    IF lines = <<>> THEN <<>> ELSE <<strip(Head(lines))>> \o StripAll(Tail(lines))

IsInvalidUrl(url) == ~is_valid_url(url)

\* bot.py:649
BulkLines(text) == StripAll(SelectSeq(split(text, "\n"), LAMBDA l : strip(l) # ""))

\* bot.py:677-686, from the i-th valid URL on
RECURSIVE BulkLoop(_, _, _)
BulkLoop(valid_urls, remote, i) ==
    IF i > Len(valid_urls)
    THEN [requests |-> <<>>, results |-> <<>>, raised |-> FALSE]
    ELSE LET out == shorten_url_with_cuttly(valid_urls[i], "", RemoteAt(remote, i)) IN
         IF out.raised
         THEN [requests |-> out.requests, results |-> <<>>, raised |-> TRUE]
         ELSE LET rest == BulkLoop(valid_urls, remote, i + 1) IN
              [requests |-> out.requests \o rest.requests,
               results |-> <<Get(out.value, "success", FALSE)>> \o rest.results,
               raised |-> rest.raised]

RECURSIVE CountFalse(_)
CountFalse(bs) ==
    IF bs = <<>> THEN 0 ELSE (IF Head(bs) THEN 0 ELSE 1) + CountFalse(Tail(bs))

\* bot.py:673-724: the counters after the loop, the count handed to
\* update_user_stats and the figures of the report that is then sent
BulkReport(urls, loop, fail) ==
    LET successful == CountTrue(loop.results)
        failed == CountFalse(loop.results)
        invalid_urls == SelectSeq(urls, IsInvalidUrl)
    IN [Run("bulk", "report", loop.requests, loop.results, <<>>, <<successful>>,
            fail = 2)
           EXCEPT !.shown = <<[successful |-> successful, failed |-> failed,
                               invalid |-> Len(invalid_urls)]>>]

\* handle_bulk_urls with a batch refused when it has MaxBulkUrls lines or more
handle_bulk_urls_strict(text, remote, fail) ==
    LET urls == BulkLines(text)
        valid_urls == SelectSeq(urls, is_valid_url)
    IN IF Len(urls) >= MaxBulkUrls THEN NoCalls("bulk", "too_many", fail = 1)
       ELSE IF valid_urls = <<>> THEN NoCalls("bulk", "no_valid", fail = 1)
       ELSE IF fail = 1 THEN NoCalls("bulk", "none", TRUE)
       ELSE LET loop == BulkLoop(valid_urls, remote, 1) IN
            IF loop.raised
            THEN Run("bulk", "none", loop.requests, loop.results, <<>>, <<>>, TRUE)
            ELSE BulkReport(urls, loop, fail)

\* handle_bulk_urls that shortens first and counts the lines afterwards
handle_bulk_urls_late_limit(text, remote, fail) ==
    LET urls == BulkLines(text)
        valid_urls == SelectSeq(urls, is_valid_url)
    IN IF valid_urls = <<>> THEN NoCalls("bulk", "no_valid", fail = 1)
       ELSE IF fail = 1 THEN NoCalls("bulk", "none", TRUE)
       ELSE LET loop == BulkLoop(valid_urls, remote, 1) IN
            IF loop.raised
            THEN Run("bulk", "none", loop.requests, loop.results, <<>>, <<>>, TRUE)
            ELSE IF Len(urls) > MaxBulkUrls
            THEN Run("bulk", "too_many", loop.requests, loop.results, <<>>, <<>>,
                     fail = 2)
            ELSE BulkReport(urls, loop, fail)

\* handle_bulk_urls, bot.py:647-724
handle_bulk_urls(text, remote, fail) ==
    LET urls == BulkLines(text)
        valid_urls == SelectSeq(urls, is_valid_url)
    IN IF Len(urls) > MaxBulkUrls THEN NoCalls("bulk", "too_many", fail = 1)
       ELSE IF valid_urls = <<>> THEN NoCalls("bulk", "no_valid", fail = 1)
       ELSE IF fail = 1 THEN NoCalls("bulk", "none", TRUE)
       ELSE LET loop == BulkLoop(valid_urls, remote, 1) IN
            IF loop.raised
            THEN Run("bulk", "none", loop.requests, loop.results, <<>>, <<>>, TRUE)
            ELSE BulkReport(urls, loop, fail)

\* ShortenAndReply that calls the API a second time after a failure
ShortenAndReply_retry(route, url, custom_alias, remote, fail) ==
    IF fail = 1 THEN NoCalls(route, "none", TRUE)
    ELSE LET out == shorten_url_with_cuttly(url, custom_alias, RemoteAt(remote, 1))
             again == shorten_url_with_cuttly(url, custom_alias, RemoteAt(remote, 2))
         IN IF out.raised
            THEN Run(route, "none", out.requests, <<>>, <<>>, <<>>, TRUE)
            ELSE IF Get(out.value, "success", FALSE)
            THEN Run(route, "shortened", out.requests, <<TRUE>>, <<>>, <<1>>, fail = 2)
            ELSE Run(route, "failed", out.requests \o again.requests, <<FALSE>>,
                     <<>>, <<>>, fail = 2)

\* one shorten call and the two replies around it, bot.py:615-645 and 472-502
ShortenAndReply(route, url, custom_alias, remote, fail) ==
    IF fail = 1 THEN NoCalls(route, "none", TRUE)
    ELSE LET out == shorten_url_with_cuttly(url, custom_alias, RemoteAt(remote, 1)) IN
         IF out.raised
         THEN Run(route, "none", out.requests, <<>>, <<>>, <<>>, TRUE)
         ELSE IF Get(out.value, "success", FALSE)
         THEN Run(route, "shortened", out.requests, <<TRUE>>, <<>>, <<1>>, fail = 2)
         ELSE Run(route, "failed", out.requests, <<FALSE>>, <<>>, <<>>, fail = 2)

\* handle_url past the bulk test, bot.py:599-645
handle_single_url(text, remote, fail) ==
    IF ~is_valid_url(text) THEN NoCalls("single", "invalid_url", fail = 1)
    ELSE ShortenAndReply("single", text, "", remote, fail)

\* re.match(r'^[a-zA-Z0-9-]{3,30}$', custom_alias), bot.py:450
alias_match(custom_alias) ==
    \E n \in AliasMinLen..AliasMaxLen :
        /\ n <= Len(custom_alias)
        /\ AllIn(SubSeq(custom_alias, 1, n), Letters \cup Digits \cup {"-"})
        /\ MatchEnd(SubSeq(custom_alias, n + 1, Len(custom_alias)))

\* custom_command that shortens without validating the alias and the URL
custom_command_unvalidated(args, remote, fail) ==
    IF args = <<>> THEN NoCalls("custom", "usage", fail = 1)
    ELSE IF Len(args) < 2 THEN NoCalls("custom", "need_both", fail = 1)
    ELSE ShortenAndReply("custom", args[2], args[1], remote, fail)

\* custom_command, bot.py:424-502
custom_command(args, remote, fail) ==
    IF args = <<>> THEN NoCalls("custom", "usage", fail = 1)
    ELSE IF Len(args) < 2 THEN NoCalls("custom", "need_both", fail = 1)
    ELSE IF ~alias_match(args[1]) THEN NoCalls("custom", "invalid_alias", fail = 1)
    ELSE IF ~is_valid_url(args[2]) THEN NoCalls("custom", "invalid_url", fail = 1)
    ELSE ShortenAndReply("custom", args[2], args[1], remote, fail)

\* format_stats_message, bot.py:249-266, raises when the slice [:80] is
\* taken of an original_url that is no string and no list
FormatRaises(stats) == stats.original_url.k \notin {"str", "list"}

\* stats_command, bot.py:374-422
stats_command(args, remote, fail) ==
    LET short_url == join(" ", args) IN
    IF args = <<>> THEN NoCalls("stats", "usage", fail = 1)
    ELSE IF ~startswith(short_url, "https://cutt.ly/")
    THEN NoCalls("stats", "invalid_cuttly_url", fail = 1)
    ELSE IF fail = 1 THEN NoCalls("stats", "none", TRUE)
    ELSE LET out == get_url_stats(short_url, RemoteAt(remote, 1)) IN
         IF out.raised
         THEN Run("stats", "none", <<>>, <<>>, out.requests, <<>>, TRUE)
         ELSE IF Get(out.value, "success", FALSE)
         THEN IF FormatRaises(out.value.stats)
              THEN Run("stats", "none", <<>>, <<>>, out.requests, <<>>, TRUE)
              ELSE Run("stats", "statistics", <<>>, <<>>, out.requests, <<>>, fail = 2)
         ELSE Run("stats", "failed", <<>>, <<>>, out.requests, <<>>, fail = 2)

\* strftime('%Y-%m-%d %H:%M') of an optional timestamp, bot.py:351-352
TimeStr(t) == IF t # <<>> THEN "t" \o ToString(t[1]) ELSE "Never"

\* mystats_command with the ranks' limits counted into the lower rank
mystats_command_inclusive(stats, user_id, fail) ==
    LET shown ==
            IF user_id \in DOMAIN stats
            THEN LET urls_count == stats[user_id].urls_shortened IN
                 [count |-> urls_count,
                  first |-> TimeStr(stats[user_id].first_used),
                  last |-> TimeStr(stats[user_id].last_used),
                  rank |-> IF urls_count <= BeginnerBelow THEN "Beginner"
                           ELSE IF urls_count >= ProAbove THEN "Pro"
                           ELSE "Regular"]
            ELSE [count |-> 0, first |-> "Never", last |-> "Never", rank |-> ""]
    IN [NoCalls("mystats", "mystats", fail = 1) EXCEPT !.shown = <<shown>>]

\* mystats_command, bot.py:341-372: what the message shows
mystats_command(stats, user_id, fail) ==
    LET shown ==
            IF user_id \in DOMAIN stats
            THEN LET urls_count == stats[user_id].urls_shortened IN
                 [count |-> urls_count,
                  first |-> TimeStr(stats[user_id].first_used),
                  last |-> TimeStr(stats[user_id].last_used),
                  rank |-> IF urls_count < BeginnerBelow THEN "Beginner"
                           ELSE IF urls_count > ProAbove THEN "Pro"
                           ELSE "Regular"]
            ELSE [count |-> 0, first |-> "Never", last |-> "Never", rank |-> ""]
    IN [NoCalls("mystats", "mystats", fail = 1) EXCEPT !.shown = <<shown>>]


(***************************************************************************)
(* button_callback, bot.py:726-829.  The press is acknowledged outside the *)
(* try block; the dispatch on the payload's tag and the action run inside  *)
(* it, and the except clause reports the exception's text, truncated, by   *)
(* one more edit.  fails is the set of the awaits that raise when they are *)
(* reached (answer, the first edit, the photo, the final edit, the report  *)
(* of the except clause) and msg the text of the exception they raise.     *)
(* A run also carries the URL the action ran against and the error text    *)
(* that was reported.                                                      *)
(***************************************************************************)
ButtonRun(route, target, reply, stats_requests, raised, error) ==
    Run(route, reply, <<>>, <<>>, stats_requests, <<>>, raised)
        @@ [target |-> target, error |-> error]

\* the try block completed with this run
Completed(run) == [raised |-> FALSE, msg |-> "", run |-> run]

\* an exception with the text msg was raised inside the try block
Thrown(run, msg) == [raised |-> TRUE, msg |-> msg, run |-> run]

\* bot.py:735-742
ButtonCopy(url, fails, msg) ==
    IF "edit" \in fails
    THEN Thrown(ButtonRun("copy", url, "none", <<>>, FALSE, ""), msg)
    ELSE Completed(ButtonRun("copy", url, "copied", <<>>, FALSE, ""))

\* bot.py:744-765 and 801-825
ButtonStats(route, short_url, remote, fails, msg) ==
    IF "edit" \in fails
    THEN Thrown(ButtonRun(route, short_url, "none", <<>>, FALSE, ""), msg)
    ELSE LET out == get_url_stats(short_url, remote)
             run == ButtonRun(route, short_url, "interim", out.requests, FALSE, "")
         IN IF out.raised THEN Thrown(run, out.value.msg)
            ELSE IF Get(out.value, "success", FALSE)
            THEN IF FormatRaises(out.value.stats)
                 THEN Thrown(run, "'NoneType' object is not subscriptable")
                 ELSE IF "final" \in fails THEN Thrown(run, msg)
                 ELSE Completed([run EXCEPT !.reply = "statistics"])
            ELSE IF "final" \in fails THEN Thrown(run, msg)
            ELSE Completed([run EXCEPT !.reply = "failed"])

\* bot.py:767-799; generate_qr_code (bot.py:202-247) returns no image for an
\* empty URL and raises nothing
ButtonQr(url, qr_image, fails, msg) ==
    LET run == ButtonRun("qr", url, "interim", <<>>, FALSE, "") IN
    IF "edit" \in fails THEN Thrown([run EXCEPT !.reply = "none"], msg)
    ELSE IF url # "" /\ qr_image
    THEN IF "photo" \in fails THEN Thrown(run, msg)
         ELSE IF "final" \in fails THEN Thrown([run EXCEPT !.reply = "photo"], msg)
         ELSE Completed([run EXCEPT !.reply = "qr_sent"])
    ELSE IF "final" \in fails THEN Thrown(run, msg)
    ELSE Completed([run EXCEPT !.reply = "qr_failed"])

\* ButtonTry that cuts every payload after its first underscore
ButtonTry_first_underscore(data, remote, qr_image, fails, msg) ==
    IF startswith(data, "copy_")
    THEN ButtonCopy(SubSeq(data, 6, Len(data)), fails, msg)
    ELSE IF startswith(data, "stats_")
    THEN ButtonStats("stats", SubSeq(data, 7, Len(data)), remote, fails, msg)
    ELSE IF startswith(data, "qr_")
    THEN ButtonQr(SubSeq(data, 4, Len(data)), qr_image, fails, msg)
    ELSE IF startswith(data, "refresh_stats_")
    THEN ButtonStats("refresh_stats", SubSeq(data, 9, Len(data)), remote, fails, msg)
    ELSE Completed(ButtonRun("none", "", "none", <<>>, FALSE, ""))

\* bot.py:734-825: the if/elif chain over the payload; data[n:] is the
\* payload from its character n + 1 on
ButtonTry(data, remote, qr_image, fails, msg) ==
    IF startswith(data, "copy_")
    THEN ButtonCopy(SubSeq(data, 6, Len(data)), fails, msg)
    ELSE IF startswith(data, "stats_")
    THEN ButtonStats("stats", SubSeq(data, 7, Len(data)), remote, fails, msg)
    ELSE IF startswith(data, "qr_")
    THEN ButtonQr(SubSeq(data, 4, Len(data)), qr_image, fails, msg)
    ELSE IF startswith(data, "refresh_stats_")
    THEN ButtonStats("refresh_stats", SubSeq(data, 15, Len(data)), remote, fails, msg)
    ELSE Completed(ButtonRun("none", "", "none", <<>>, FALSE, ""))

\* button_callback, bot.py:726-829
button_callback(data, remote, qr_image, fails, msg) ==
    IF "answer" \in fails THEN ButtonRun("none", "", "none", <<>>, TRUE, "")
    ELSE LET body == ButtonTry(data, remote, qr_image, fails, msg) IN
         IF ~body.raised THEN body.run
         ELSE IF "report" \in fails
         THEN [body.run EXCEPT !.reply = "none", !.raised = TRUE]
         ELSE [body.run EXCEPT !.reply = "error",
                               !.error = "Error: " \o Truncate(body.msg, ExcTextLimit)]

(***************************************************************************)
(* qr_command, bot.py:504-568.  fails is the set of the awaits that raise  *)
(* when they are reached (the first reply, the deletion of the interim     *)
(* message, the photo, the edit of the interim message) and msg the text   *)
(* of the exception they raise.  A run carries the operations attempted on *)
(* and after the interim message, each with its success.  Telegram refuses *)
(* to edit a message that has been deleted: such an edit raises.           *)
(***************************************************************************)
QrRun(reply, url, ops, raised, error) ==
    Run("qr", reply, <<>>, <<>>, <<>>, <<>>, raised)
        @@ [target |-> url, error |-> error, ops |-> ops]

Op(name, ok) == [op |-> name, ok |-> ok]

\* bot.py:533-568, once the interim message has been sent
QrSend(url, qr_image, fails, msg) ==
    LET created == <<Op("interim", TRUE)>> IN
    IF ~qr_image
    THEN IF "edit" \in fails
         THEN QrRun("none", url, created \o <<Op("edit", FALSE)>>, TRUE, "")
         ELSE QrRun("qr_failed", url, created \o <<Op("edit", TRUE)>>, FALSE, "")
    ELSE IF "delete" \in fails
    THEN IF "edit" \in fails
         THEN QrRun("none", url,
                    created \o <<Op("delete", FALSE), Op("edit", FALSE)>>, TRUE, "")
         ELSE QrRun("error", url,
                    created \o <<Op("delete", FALSE), Op("edit", TRUE)>>, FALSE,
                    "Failed to send QR code image: " \o Truncate(msg, ExcTextLimit))
    ELSE IF "photo" \in fails
    THEN QrRun("none", url,
               created \o <<Op("delete", TRUE), Op("photo", FALSE),
                            Op("edit", FALSE)>>, TRUE, "")
    ELSE QrRun("qr_sent", url,
               created \o <<Op("delete", TRUE), Op("photo", TRUE)>>, FALSE, "")

\* qr_command, bot.py:504-568
qr_command(args, qr_image, fails, msg) ==
    LET url == join(" ", args) IN
    IF args = <<>> THEN QrRun("usage", "", <<>>, "reply" \in fails, "")
    ELSE IF ~startswith(url, "https://cutt.ly/") /\ ~is_valid_url(url)
    THEN QrRun("invalid_url", url, <<>>, "reply" \in fails, "")
    ELSE IF "reply" \in fails THEN QrRun("none", url, <<>>, TRUE, "")
    ELSE QrSend(url, qr_image, fails, msg)

(***************************************************************************)
(* Spec: the bot.  Inputs are the user, the message text or the command's  *)
(* arguments, the remote's answer to each call and the await that raises.  *)
(***************************************************************************)
Ok(status, short_link) ==
    Response(200, JObj([url |-> JObj([status |-> JNum(status),
                                      shortLink |-> JStr(short_link)])]))
AliasTaken == Response(200, JObj([url |-> JObj([status |-> JNum(4)])]))

\* the answers of the shortening API the handlers are run against
BotRemotes ==
    {Ok(7, "https://cutt.ly/abc1"), AliasTaken, Raises("Timeout", "timed out"),
     Raises("ConnectionError", "refused"), Response(500, Malformed),
     Response(200, Malformed)}

StatsRemotes ==
    {Response(200, JObj([stats |-> JObj([status |-> JNum(1), clicks |-> JNum(3)])])),
     Response(200, JObj([stats |-> JObj([status |-> JNum(1), fullLink |-> JNull])])),
     Response(200, JObj([stats |-> JObj([status |-> JNum(2)])])),
     Response(200, Malformed), Response(500, Malformed),
     Raises("Timeout", "timed out"), Raises("ConnectionError", "refused")}

\* n lines, the first a valid URL and the others not
OneValidAmong(n) == "https://a.co/p" \o Repeat("\nnot-a-url", n - 1)

Texts ==
    {"  https://a.co/p\n", "ftp://x.com",
     "https://a.co/1\n  not a url \n\nhttps://b.org/2\nhttp://c.net:80/x\n",
     OneValidAmong(MaxBulkUrls) \o "\n \n",
     "https://a.co/p" \o Repeat("\nhttps://a.co/p", MaxBulkUrls)}

CustomArgs ==
    {<<>>, <<"my-alias">>, <<"my-alias", "https://a.co/p">>,
     <<"ab", "https://a.co/p">>, <<"bad_alias", "https://a.co/p">>,
     <<"my-alias", "ftp://x.com">>, <<"my-alias", "https://a.co/p", "extra">>}

StatsArgs ==
    {<<>>, <<"https://cutt.ly/abc1">>, <<"https://a.co/p">>, <<"https://cutt.ly/">>}

SendPoints == 0..2

\* callback payloads: one for each tag, one with a tag and nothing after it,
\* one without a tag
Payloads ==
    {"copy_https://cutt.ly/abc1", "stats_https://cutt.ly/abc1",
     "qr_https://example.com", "refresh_stats_https://cutt.ly/abc1", "qr_",
     "noop"}

ButtonAwaits == {"answer", "edit", "photo", "final", "report"}

QrArgs ==
    {<<>>, <<"https://example.com">>, <<"https://cutt.ly/abc1">>, <<"not-a-url">>,
     <<"https://cutt.ly/a", "b">>}

QrAwaits == {"reply", "delete", "photo", "edit"}

\* the texts of the exceptions a send or an edit raises
SendErrors == {"Timed out", LongText}

\* the calls a handler may make on this text: one answer is drawn for each
RemoteSlots(bulk, text) ==
    IF ~bulk THEN 1
    ELSE IF Len(BulkLines(text)) > MaxBulkUrls THEN 0
    ELSE Len(SelectSeq(BulkLines(text), is_valid_url))

\* handle_url that processes every text as a single URL
handle_url_ignores_flag(expecting, message_text, remote, fail) ==
    handle_single_url(strip(message_text), remote, fail)

\* handle_url, bot.py:588-645, from the stripped text on: the bulk flag
\* chooses between bulk and single-URL processing
handle_url(expecting, message_text, remote, fail) ==
    LET text == strip(message_text) IN
    IF expecting THEN handle_bulk_urls(text, remote, fail)
    ELSE handle_single_url(text, remote, fail)

\* The runs of each handler on each input, over every answer of the remote
\* and every await that raises.
HandleUrlRuns ==
    [expecting \in BOOLEAN, t \in Texts |->
        {handle_url(expecting, t, remote, fail) :
            remote \in [1..RemoteSlots(expecting, strip(t)) -> BotRemotes],
            fail \in SendPoints}]

CustomRuns ==
    [args \in CustomArgs |->
        {custom_command(args, remote, fail) :
            remote \in [1..1 -> BotRemotes], fail \in SendPoints}]

StatsRuns ==
    [args \in StatsArgs |->
        {stats_command(args, remote, fail) :
            remote \in [1..1 -> StatsRemotes], fail \in SendPoints}]

ButtonRuns ==
    [data \in Payloads |->
        {button_callback(data, remote, qr_image, fails, msg) :
            remote \in StatsRemotes, qr_image \in BOOLEAN,
            fails \in SUBSET ButtonAwaits, msg \in SendErrors}]

QrRuns ==
    [args \in QrArgs |->
        {qr_command(args, qr_image, fails, msg) :
            qr_image \in BOOLEAN, fails \in SUBSET QrAwaits, msg \in SendErrors}]

Init == InitState /\ last = [op |-> "init"]

\* the effect of a handler's run on the state
Handled(op, user_id, text, args, run) ==
    /\ user_stats' = IF run.recorded # <<>>
                     THEN update_user_stats(user_stats, user_id, run.recorded[1], now)
                     ELSE user_stats
    /\ hist' = [hist EXCEPT ![user_id] =
                   @ \o [i \in 1..CountTrue(run.results) |-> now]]
    /\ Logged(hist', Users) <= MaxShortened
    /\ last' = [op |-> op, user |-> user_id, text |-> text, args |-> args,
                expecting_before |-> expecting_bulk[user_id]] @@ run
    /\ UNCHANGED <<now, tasks>>

\* bulk_command, bot.py:570-586: the flag is set after the prompt is sent
BulkCommand(user_id, fail) ==
    /\ expecting_bulk' = IF fail = 1 THEN expecting_bulk
                         ELSE [expecting_bulk EXCEPT ![user_id] = TRUE]
    /\ Handled("bulk_command", user_id, "", <<>>,
               NoCalls("bulk_command", "prompt", fail = 1))

\* handle_url, bot.py:588-645: a set flag is cleared before the text is
\* processed
HandleUrl(user_id, message_text, run) ==
    /\ expecting_bulk' = IF expecting_bulk[user_id]
                         THEN [expecting_bulk EXCEPT ![user_id] = FALSE]
                         ELSE expecting_bulk
    /\ Handled("handle_url", user_id, message_text, <<>>, run)

CustomCommand(user_id, args, run) ==
    /\ Handled("custom_command", user_id, "", args, run)
    /\ UNCHANGED expecting_bulk

StatsCommand(user_id, args, run) ==
    /\ Handled("stats_command", user_id, "", args, run)
    /\ UNCHANGED expecting_bulk

MystatsCommand(user_id, fail) ==
    /\ Handled("mystats_command", user_id, "", <<>>,
               mystats_command(user_stats, user_id, fail))
    /\ UNCHANGED expecting_bulk

\* button_callback, bot.py:726-829: user_data and user_stats are not touched
ButtonCallback(user_id, data, run) ==
    /\ Handled("button_callback", user_id, data, <<>>, run)
    /\ UNCHANGED expecting_bulk

\* qr_command, bot.py:504-568: user_data and user_stats are not touched
QrCommand(user_id, args, run) ==
    /\ Handled("qr_command", user_id, "", args, run)
    /\ UNCHANGED expecting_bulk

\* start and help_command, bot.py:287-339: one reply, no other effect
StaticCommand(user_id, op, fail) ==
    /\ Handled(op, user_id, "", <<>>, NoCalls(op, "static", fail = 1))
    /\ UNCHANGED expecting_bulk

Bulk == \E u \in Users, fail \in 0..1 : BulkCommand(u, fail)

Message ==
    \E u \in Users, t \in Texts :
        \E run \in HandleUrlRuns[expecting_bulk[u], t] : HandleUrl(u, t, run)

Custom ==
    \E u \in Users, args \in CustomArgs :
        \E run \in CustomRuns[args] : CustomCommand(u, args, run)

Stats ==
    \E u \in Users, args \in StatsArgs :
        \E run \in StatsRuns[args] : StatsCommand(u, args, run)

Mystats == \E u \in Users, fail \in 0..1 : MystatsCommand(u, fail)

Qr ==
    \E u \in Users, args \in QrArgs :
        \E run \in QrRuns[args] : QrCommand(u, args, run)

Button ==
    \E u \in Users, data \in Payloads :
        \E run \in ButtonRuns[data] : ButtonCallback(u, data, run)

Static ==
    \E u \in Users, op \in {"start", "help_command"}, fail \in 0..1 :
        StaticCommand(u, op, fail)

\* Spec: the handlers in any order, at one reading of the clock.
Next ==
    Bulk \/ Message \/ Custom \/ Stats \/ Mystats \/ Static \/ Button \/ Qr

Spec == Init /\ [][Next]_vars

\* SpecClock: /bulk, text messages and /custom, the events that reach the
\* store, with the clock moving on between them.
NextClock == Bulk \/ Message \/ Custom \/ Tick

SpecClock == Init /\ [][NextClock]_vars

(***************************************************************************)
(* SpecMystats: /mystats on every store whose counters lie at and around   *)
(* the limits of the ranks.  An entry of the store has both its timestamps *)
(* set, first_used not after last_used and neither after the clock.        *)
(***************************************************************************)
StoredCounts == {0, BeginnerBelow - 1, BeginnerBelow, ProAbove, ProAbove + 1}

Entries(clock) ==
    {e \in [urls_shortened : StoredCounts,
            first_used : {<<f>> : f \in 0..clock},
            last_used : {<<l>> : l \in 0..clock}] :
        e.first_used[1] <= e.last_used[1]}

Stores(clock) ==
    UNION {[S -> Entries(clock)] : S \in SUBSET Users}

InitMystats ==
    /\ now \in 0..MaxClock
    /\ user_stats \in Stores(now)
    /\ expecting_bulk = [u \in Users |-> FALSE]
    /\ hist = [u \in Users |-> <<>>]
    /\ tasks = <<>>
    /\ last = [op |-> "init"]

NextMystats == Mystats

SpecMystats == InitMystats /\ [][NextMystats]_vars

(***************************************************************************)
(* SpecInterleaved: handler invocations as tasks of one event loop.  A     *)
(* task is a coroutine: it runs from one await of a send or an edit to the *)
(* next without another task in between, and gives the loop up at each     *)
(* such await, where every other suspended task may go on.  A handler is   *)
(* the sequence of its accesses to the flag and to the store and of its    *)
(* awaits, in the order of the code; shorten_url_with_cuttly and           *)
(* update_user_stats are plain functions and hold no await.  The store's   *)
(* += reads the entry and writes it back.                                  *)
(***************************************************************************)
\* bulk_command, bot.py:570-586
bulk_command_steps == <<"await", "set_flag", "end">>

\* handle_url with the first reply awaited between the test of the flag and
\* its clearing
handle_url_steps_suspended ==
    <<"test_flag", "await", "clear_flag", "shorten", "read_stats", "write_stats",
      "await", "end">>

\* handle_url on a valid URL, bot.py:588-645, and through handle_bulk_urls,
\* bot.py:647-724, on a batch of one: the flag is tested (594) and cleared
\* (595), the interim reply awaited (615, 671), the URL shortened (618,
\* 678), the store updated (622, 711) and the final edit awaited (645, 724)
handle_url_steps ==
    <<"test_flag", "clear_flag", "await", "shorten", "read_stats", "write_stats",
      "await", "end">>

StepsOf(handler) ==
    IF handler = "bulk_command" THEN bulk_command_steps ELSE handle_url_steps

NewTask(handler, user_id) ==
    [handler |-> handler, user |-> user_id, pc |-> 1, expecting |-> FALSE,
     route |-> "", ok |-> FALSE, read |-> <<>>, wrote |-> FALSE, raised |-> FALSE]

Instruction(task) == StepsOf(task.handler)[task.pc]

Ended(task) == Instruction(task) = "end"

\* the task that holds the event loop: the one that has started, or gone on
\* from an await, and not yet reached the next await or its end; a task at
\* an await is suspended there until the await completes or raises
Running ==
    {t \in DOMAIN tasks :
        tasks[t].pc > 1 /\ Instruction(tasks[t]) \notin {"await", "end"}}

InitInterleaved == InitState /\ last = [op |-> "init"]

\* an update arrives and its handler is scheduled
Spawn(handler, user_id) ==
    /\ Len(tasks) < MaxTasks
    /\ tasks' = Append(tasks, NewTask(handler, user_id))
    /\ UNCHANGED <<user_stats, expecting_bulk, now, last, hist>>

\* the task t runs its next instruction, or goes on from the await it is
\* suspended at; ok is the outcome of its shorten call
Step(t, ok) ==
    LET task == tasks[t]
        u == task.user
        next == [task EXCEPT !.pc = @ + 1]
    IN /\ ~Ended(task)
       /\ Running \subseteq {t}
       /\ CASE Instruction(task) = "await" ->
                   /\ tasks' = [tasks EXCEPT ![t] = next]
                   /\ UNCHANGED <<user_stats, expecting_bulk>>
            [] Instruction(task) = "set_flag" ->
                   /\ expecting_bulk' = [expecting_bulk EXCEPT ![u] = TRUE]
                   /\ tasks' = [tasks EXCEPT ![t] = next]
                   /\ UNCHANGED user_stats
            [] Instruction(task) = "test_flag" ->
                   /\ tasks' = [tasks EXCEPT
                                   ![t] = [next EXCEPT !.expecting = expecting_bulk[u]]]
                   /\ UNCHANGED <<user_stats, expecting_bulk>>
            [] Instruction(task) = "clear_flag" ->
                   /\ expecting_bulk' = IF task.expecting
                                        THEN [expecting_bulk EXCEPT ![u] = FALSE]
                                        ELSE expecting_bulk
                   /\ tasks' = [tasks EXCEPT
                                   ![t] = [next EXCEPT
                                              !.route = IF task.expecting THEN "bulk"
                                                        ELSE "single"]]
                   /\ UNCHANGED user_stats
            [] Instruction(task) = "shorten" ->
                   /\ tasks' = [tasks EXCEPT ![t] = [next EXCEPT !.ok = ok]]
                   /\ UNCHANGED <<user_stats, expecting_bulk>>
            [] Instruction(task) = "read_stats" ->
                   /\ tasks' = [tasks EXCEPT
                                   ![t] = [next EXCEPT
                                              !.read = IF task.ok \/ task.route = "bulk"
                                                       THEN <<user_stats>> ELSE <<>>]]
                   /\ UNCHANGED <<user_stats, expecting_bulk>>
            [] Instruction(task) = "write_stats" ->
                   /\ user_stats' =
                          IF task.read = <<>> THEN user_stats
                          ELSE Put(user_stats, u,
                                   update_user_stats(task.read[1], u,
                                                     IF task.ok THEN 1 ELSE 0, now)[u])
                   /\ tasks' = [tasks EXCEPT
                                   ![t] = [next EXCEPT !.read = <<>>,
                                                       !.wrote = task.read # <<>>]]
                   /\ UNCHANGED expecting_bulk
       /\ UNCHANGED <<now, last, hist>>

\* the await the task t is suspended at raises: the exception leaves the
\* handler
AwaitRaises(t) ==
    /\ ~Ended(tasks[t])
    /\ Running = {}
    /\ Instruction(tasks[t]) = "await"
    /\ tasks' = [tasks EXCEPT
                    ![t] = [tasks[t] EXCEPT
                               !.pc = Len(StepsOf(tasks[t].handler)),
                               !.raised = TRUE]]
    /\ UNCHANGED <<user_stats, expecting_bulk, now, last, hist>>

Arrive == \E h \in {"bulk_command", "handle_url"}, u \in Users : Spawn(h, u)

Resume == \E t \in DOMAIN tasks, ok \in BOOLEAN : Step(t, ok)

Interrupt == \E t \in DOMAIN tasks : AwaitRaises(t)

NextInterleaved == Arrive \/ Resume \/ Interrupt

SpecInterleaved == InitInterleaved /\ [][NextInterleaved]_vars

(***************************************************************************)
(* Properties of shorten_url_with_cuttly, checked under SpecShorten.       *)
(***************************************************************************)
ShortenDone == last.op = "shorten_url_with_cuttly"

\* the call went out and the remote answered HTTP 200
Answered200 ==
    /\ ShortenDone
    /\ last.long_url # ""
    /\ "status_code" \in DOMAIN last.remote
    /\ last.remote.status_code = 200

\* the answer's url object, when the body is an object whose url is an object
HasUrlObject ==
    /\ Answered200
    /\ last.remote.body.k = "obj"
    /\ "url" \in DOMAIN last.remote.body.v
    /\ last.remote.body.v["url"].k = "obj"

UrlObject == last.remote.body.v["url"]

StatusIs(n) ==
    /\ HasUrlObject
    /\ "status" \in DOMAIN UrlObject.v
    /\ UrlObject.v["status"] = JNum(n)

\* the url object carries a short link: a non-empty string
HasShortLink ==
    /\ "shortLink" \in DOMAIN UrlObject.v
    /\ UrlObject.v["shortLink"].k = "str"
    /\ UrlObject.v["shortLink"].v # ""

\* the url object carries no short link: no key, null, or an empty string
LacksShortLink ==
    \/ "shortLink" \notin DOMAIN UrlObject.v
    \/ UrlObject.v["shortLink"] \in {JNull, JStr("")}

Failed(d) == d.success = FALSE /\ Get(d, "error", "") # ""
Succeeded(d) == d.success = TRUE /\ Get(d, "short_url", "") # ""

\* C7: for every input and every behaviour of the remote API the call
\* returns and never raises, and what it returns is either success=true
\* with a non-empty short_url or success=false with a non-empty error.
C7_ShortenNeverRaises ==
    ShortenDone =>
        /\ ~last.out.raised
        /\ Succeeded(last.out.value) \/ Failed(last.out.value)

\* C7 witness: an exception that is neither a timeout nor a connection
\* error, with a long text, came back as a truncated internal error.
C7_Witness ==
    /\ ShortenDone
    /\ last.long_url # ""
    /\ last.remote = Raises("Exception", LongText)
    /\ ~last.out.raised
    /\ last.out.value.error = "Internal error: " \o SubSeq(LongText, 1, 100)

\* the cases C8 names: malformed JSON, no url object, an empty url object,
\* a success status without a short link
C8_Malformed == Answered200 /\ last.remote.body.k = "malformed"
C8_NoUrl ==
    /\ Answered200
    /\ last.remote.body.k = "obj"
    /\ "url" \notin DOMAIN last.remote.body.v
C8_EmptyUrl ==
    /\ Answered200
    /\ last.remote.body.k = "obj"
    /\ "url" \in DOMAIN last.remote.body.v
    /\ last.remote.body.v["url"] = EmptyObj
C8_NoLink(n) == StatusIs(n) /\ LacksShortLink

\* C8 as stated: in each of these cases the error is exactly
\* "Invalid API response".
C8_AsStated ==
    (C8_Malformed \/ C8_NoUrl \/ C8_EmptyUrl \/ C8_NoLink(7)) =>
        /\ ~last.out.raised
        /\ last.out.value.success = FALSE
        /\ Get(last.out.value, "error", "") = "Invalid API response"

\* C8 amended: each of these cases yields success=false with an error that
\* names the cause; the error is "Invalid API response" only when the body
\* has no url key.
C8_MissingFieldErrors ==
    /\ (C8_Malformed \/ C8_NoUrl \/ C8_EmptyUrl \/ C8_NoLink(7) \/ C8_NoLink(1)) =>
           ~last.out.raised /\ Failed(last.out.value)
    /\ C8_NoUrl => last.out.value.error = "Invalid API response"
    /\ C8_EmptyUrl => last.out.value.error = "No URL data in response"
    /\ C8_NoLink(7) => last.out.value.error = "No short link in response"
    /\ C8_NoLink(1) => last.out.value.error = "URL exists but no short link"
    /\ C8_Malformed => startswith(last.out.value.error, "Internal error: ")

\* C8 witness: an empty url object was answered with its own message.
C8_Witness ==
    /\ C8_EmptyUrl
    /\ last.out.value.error = "No URL data in response"

\* t is what follows the last slash of s (all of s when it has none)
IsTrailingSegment(t, s) ==
    /\ ~Contains(t, "/")
    /\ \E i \in 0..Len(s) :
          /\ SubSeq(s, i + 1, Len(s)) = t
          /\ i = 0 \/ Char(s, i) = "/"

\* C9: for an HTTP 200 answer with url.status = s: s = 7 with a short link
\* is a success whose short_url is the short link and whose short_id is its
\* trailing path segment; s = 1 with a short link is a success with a note;
\* every other s fails, with the table's message for 2, 3, 4, 5, 6, 8 and
\* with an unknown-error message carrying s for a code outside the table.
C9_StatusMapping ==
    \A s \in 0..MaxStatus :
        StatusIs(s) =>
            LET d == last.out.value
                link == UrlObject.v["shortLink"].v
            IN /\ ~last.out.raised
               /\ (s = 7 /\ HasShortLink) =>
                      /\ d.success = TRUE
                      /\ d.short_url = link
                      /\ IsTrailingSegment(d.short_id, link)
                      /\ "message" \notin DOMAIN d
               /\ (s = 1 /\ HasShortLink) =>
                      /\ d.success = TRUE
                      /\ d.short_url = link
                      /\ Get(d, "message", "") # ""
               /\ s \notin {1, 7} =>
                      /\ Failed(d)
                      /\ Contains(d.error, "Unknown error") <=> s \notin {2, 3, 4, 5, 6, 8}
                      /\ s = 2 => Contains(d.error, "Invalid URL")
                      /\ s = 3 => Contains(d.error, "Invalid custom alias")
                      /\ s = 4 => Contains(d.error, "alias already taken")
                      /\ s = 5 => Contains(d.error, "Invalid API key")
                      /\ s = 6 => Contains(d.error, "Too many requests")
                      /\ s = 8 => Contains(d.error, "blocked")
                      /\ s \notin {2, 3, 4, 5, 6, 8} =>
                             Contains(d.error, "(code: " \o ToString(s) \o ")")

\* C9 witness: status 7 with the short link https://cutt.ly/abc1 gave the
\* short id abc1.
C9_Witness ==
    /\ StatusIs(7)
    /\ HasShortLink
    /\ UrlObject.v["shortLink"].v = "https://cutt.ly/abc1"
    /\ last.out.value.short_url = "https://cutt.ly/abc1"
    /\ last.out.value.short_id = "abc1"

(***************************************************************************)
(* Properties of the user statistics store, checked under SpecStore.       *)
(***************************************************************************)
\* C4: record(user_id, count) adds count to the user's urls_shortened, sets
\* last_used to the current time and sets first_used only when it is unset:
\* after the calls logged for a user, urls_shortened is the sum of their
\* counts (n after n calls with count 1), last_used is the time of the last
\* call, first_used is still the time of the first one and is not after
\* last_used; a user no call was made for has no entry, so a call for one
\* user changes no other user's entry.
C4_RecordContract ==
    \A u \in Users :
        IF hist[u] = <<>> THEN u \notin DOMAIN user_stats
        ELSE /\ u \in DOMAIN user_stats
             /\ user_stats[u].urls_shortened = SumCounts(hist[u])
             /\ (\A i \in 1..Len(hist[u]) : hist[u][i].count = 1) =>
                    user_stats[u].urls_shortened = Len(hist[u])
             /\ user_stats[u].first_used = <<hist[u][1].at>>
             /\ user_stats[u].last_used = <<hist[u][Len(hist[u])].at>>
             /\ user_stats[u].first_used[1] <= user_stats[u].last_used[1]

\* C4 witness: three calls record(1) at advancing times left user 1 with
\* urls_shortened 3, first_used the first time and last_used a later one,
\* and user 2 without an entry.
C4_Witness ==
    /\ last.op = "update_user_stats"
    /\ Len(hist[1]) = 3
    /\ \A i \in 1..3 : hist[1][i].count = 1
    /\ hist[1][1].at < hist[1][3].at
    /\ user_stats[1].urls_shortened = 3
    /\ user_stats[1].first_used = <<hist[1][1].at>>
    /\ 2 \notin DOMAIN user_stats

(***************************************************************************)
(* Properties of the handlers, checked under Spec and SpecClock.  After a  *)
(* step, last' holds the handler that ran, its user, its input and its run.*)
(***************************************************************************)
\* urls_shortened of user u in the store stats, 0 without an entry
Shortened(stats, u) == IF u \in DOMAIN stats THEN stats[u].urls_shortened ELSE 0

\* first_used of user u in the store stats, unset without an entry
FirstUsed(stats, u) == IF u \in DOMAIN stats THEN stats[u].first_used ELSE <<>>

\* the non-empty lines of each text and the valid URLs among them
LinesOf == [t \in Texts |-> BulkLines(strip(t))]
ValidOf == [t \in Texts |-> SelectSeq(LinesOf[t], is_valid_url)]

\* this step handled a text message of a user whose bulk flag was set
BulkMessageStep == last'.op = "handle_url" /\ expecting_bulk[last'.user]

\* this step handled a text message of a user whose bulk flag was not set
IdleMessageStep == last'.op = "handle_url" /\ ~expecting_bulk[last'.user]

\* what a step does to the flag of user u, /bulk setting it when sets holds:
\* a handler run for another user leaves it alone; /bulk leaves it set;
\* a text message is routed to bulk processing exactly when the flag was
\* set and leaves it cleared; every other handler leaves it alone
FlagStep(u, sets) ==
    IF last'.user # u THEN expecting_bulk'[u] = expecting_bulk[u]
    ELSE CASE last'.op = "bulk_command" ->
                  expecting_bulk'[u] = (expecting_bulk[u] \/ sets)
           [] last'.op = "handle_url" ->
                  /\ ~expecting_bulk'[u]
                  /\ last'.route = IF expecting_bulk[u] THEN "bulk" ELSE "single"
           [] OTHER -> expecting_bulk'[u] = expecting_bulk[u]

\* C1 as stated: per user the conversation is a two-state machine; /bulk
\* sets the flag, and the next text message of that user, valid or not,
\* shortened or not, is routed to bulk processing and never to single-URL
\* processing, and leaves the flag cleared.
C1_AsStated == [][\A u \in Users : FlagStep(u, TRUE)]_vars

\* C1 amended: the same, with /bulk setting the flag once its prompt has
\* been sent; when sending the prompt raises the flag stays as it was.
C1_BulkFlagMachine == [][\A u \in Users : FlagStep(u, ~last'.raised)]_vars

\* C1 witness: after /bulk a text without a valid URL was routed to bulk
\* processing, refused there, and left the flag cleared.
C1_Witness ==
    /\ last.op = "handle_url"
    /\ last.expecting_before
    /\ last.text = "ftp://x.com"
    /\ last.route = "bulk"
    /\ last.reply = "no_valid"
    /\ ~expecting_bulk[last.user]

\* C2 as stated: first_used is set at the user's first successful shorten:
\* a user with no successful shorten so far has first_used unset, and a
\* user with one has the time of the first.
C2_AsStated ==
    \A u \in Users :
        FirstUsed(user_stats, u) =
            IF hist[u] = <<>> THEN <<>> ELSE <<hist[u][1]>>

\* C3: each user's urls_shortened (0 without an entry) is the number of
\* successful shorten calls made for that user so far; a step adds to it
\* the number of successes of the handler's run (1 for a successful bare
\* URL or /custom, the successes of a bulk batch, 0 for a failed shorten
\* and for every other handler) and to no other user's; an entry is never
\* removed.
C3_Step ==
    \A u \in Users :
        /\ u \in DOMAIN user_stats => u \in DOMAIN user_stats'
        /\ Shortened(user_stats', u) =
               Shortened(user_stats, u)
                   + (IF last'.user = u THEN CountTrue(last'.results) ELSE 0)
        /\ (last'.user = u /\ last'.route \in {"single", "custom"}
                /\ last'.reply = "shortened") =>
               Shortened(user_stats', u) = Shortened(user_stats, u) + 1

C3_CounterCountsSuccesses ==
    /\ [](\A u \in Users : Shortened(user_stats, u) = Len(hist[u]))
    /\ [][C3_Step]_vars

\* C3 witness: a user with one shortened URL sent a bulk batch of which the
\* first and the third URL were shortened and the second failed, and has a
\* counter of 3.
C3_Witness ==
    /\ last.op = "handle_url"
    /\ last.route = "bulk"
    /\ last.results = <<TRUE, FALSE, TRUE>>
    /\ Len(hist[last.user]) = 3
    /\ user_stats[last.user].urls_shortened = 3

\* the texts of more than MaxBulkUrls non-empty lines
TooLong == {t \in Texts : Len(LinesOf[t]) > MaxBulkUrls}

\* C5: a bulk text of more than 10 non-empty lines is rejected as a whole:
\* no shorten call is issued, the store is left unchanged, and the flag is
\* cleared all the same.
C5_Step ==
    (BulkMessageStep /\ last'.text \in TooLong) =>
        /\ last'.route = "bulk"
        /\ last'.requests = <<>>
        /\ last'.results = <<>>
        /\ user_stats' = user_stats
        /\ ~expecting_bulk'[last'.user]

C5_TooManyRejected == [][C5_Step]_vars

\* C5 witness: eleven valid URLs sent after /bulk were refused without a
\* call, by a user whose counter stayed at 1, and the flag is cleared.
C5_Witness ==
    /\ last.op = "handle_url"
    /\ last.expecting_before
    /\ last.text \in TooLong
    /\ Len(ValidOf[last.text]) = MaxBulkUrls + 1
    /\ last.reply = "too_many"
    /\ last.requests = <<>>
    /\ Shortened(user_stats, last.user) = 1
    /\ ~expecting_bulk[last.user]

\* the texts of at most MaxBulkUrls non-empty lines, one at least valid
Batches == {t \in Texts : Len(LinesOf[t]) <= MaxBulkUrls /\ ValidOf[t] # <<>>}

\* the batch t was processed: one shorten call per valid URL in input
\* order, a result for each, successes and failures adding up to the valid
\* URLs and invalid lines to the rest, and the successes recorded
BatchProcessed(t) ==
    LET valid == ValidOf[t]
        successful == CountTrue(last'.results)
        u == last'.user
    IN /\ last'.requests = [i \in 1..Len(valid) |-> ShortenParams(valid[i], "")]
       /\ Len(last'.results) = Len(valid)
       /\ last'.shown = <<[successful |-> successful,
                           failed |-> Len(valid) - successful,
                           invalid |-> Len(LinesOf[t]) - Len(valid)]>>
       /\ last'.recorded = <<successful>>
       /\ u \in DOMAIN user_stats'
       /\ user_stats'[u].urls_shortened = Shortened(user_stats, u) + successful

\* the run ended at the interim message, whose sending raised
InterimFailed == last'.raised /\ last'.reply = "none"

\* C6 as stated: for a bulk batch of at most 10 non-empty lines with at
\* least one valid URL, every line is either valid or invalid, exactly one
\* shorten call is issued per valid URL in input order and none for an
\* invalid line, successful + failed is the number of valid URLs, and the
\* number recorded to the store is the number of successful shortens.
C6_AsStated ==
    [][\A t \in Batches :
           (BulkMessageStep /\ last'.text = t) => BatchProcessed(t)]_vars

\* C6 amended: the same once the interim "Processing" message has been
\* sent; when sending it raises, no shorten call is issued and nothing is
\* recorded.
C6_BatchProcessing ==
    [][\A t \in Batches :
           (BulkMessageStep /\ last'.text = t) =>
               IF InterimFailed
               THEN /\ last'.requests = <<>>
                    /\ user_stats' = user_stats
               ELSE BatchProcessed(t)]_vars

\* C6 witness: three valid URLs and one invalid line, all three shortened:
\* 3 recorded, 1 invalid entry reported.
C6_Witness ==
    /\ last.op = "handle_url"
    /\ last.expecting_before
    /\ Len(LinesOf[last.text]) = 4
    /\ Len(ValidOf[last.text]) = 3
    /\ last.results = <<TRUE, TRUE, TRUE>>
    /\ last.recorded = <<3>>
    /\ last.shown = <<[successful |-> 3, failed |-> 0, invalid |-> 1]>>
    /\ user_stats[last.user].urls_shortened = 3

\* the inputs that fail validation: /stats without an argument or with one
\* not prefixed by https://cutt.ly/, /custom with fewer than two arguments,
\* an alias outside the pattern or a URL the validator rejects, and a text
\* the validator rejects
BadStatsArgs ==
    {a \in StatsArgs : a = <<>> \/ ~startswith(join(" ", a), "https://cutt.ly/")}
BadCustomArgs ==
    {a \in CustomArgs : Len(a) < 2 \/ ~alias_match(a[1]) \/ ~is_valid_url(a[2])}
BadTexts == {t \in Texts : ~is_valid_url(strip(t))}

\* shorten("") returns the error "No URL provided" without a request
ShortenEmpty ==
    \A a \in Aliases, r \in Remotes :
        shorten_url_with_cuttly("", a, r) =
            [raised |-> FALSE,
             value |-> [success |-> FALSE, error |-> "No URL provided"],
             requests |-> <<>>]

\* C10: an input-validation failure causes no remote call and no store
\* change: /stats with an argument not prefixed by https://cutt.ly/, /custom
\* with a missing argument, an alias outside the pattern or a URL the
\* validator rejects, and a rejected bare text in idle state make no call
\* and leave the store as it was; shorten("") returns "No URL provided"
\* with no outbound call.
C10_Step ==
    LET quiet == /\ last'.requests = <<>>
                 /\ last'.stats_requests = <<>>
                 /\ user_stats' = user_stats
    IN /\ (last'.op = "stats_command" /\ last'.args \in BadStatsArgs) => quiet
       /\ (last'.op = "custom_command" /\ last'.args \in BadCustomArgs) => quiet
       /\ (IdleMessageStep /\ last'.text \in BadTexts) => quiet

C10_ValidationMakesNoCall == [][ShortenEmpty /\ C10_Step]_vars

\* C10 witness: /custom with an alias outside the pattern and a valid URL
\* was refused without a call, by a user with a counter of 1.
C10_Witness ==
    /\ last.op = "custom_command"
    /\ last.args = <<"bad_alias", "https://a.co/p">>
    /\ last.reply = "invalid_alias"
    /\ last.requests = <<>>
    /\ Shortened(user_stats, last.user) = 1

\* C11 as stated: /custom with any number of arguments other than two (zero,
\* one, three or more) is answered with a usage or validation error, issues
\* no shorten call and records no usage.
C11_AsStated ==
    [][(last'.op = "custom_command" /\ Len(last'.args) # 2) =>
           /\ last'.reply \in {"usage", "need_both"}
           /\ last'.requests = <<>>
           /\ last'.recorded = <<>>
           /\ user_stats' = user_stats]_vars

\* the button tags and the action each names
ButtonTags ==
    {[tag |-> "copy_", action |-> "copy"], [tag |-> "stats_", action |-> "stats"],
     [tag |-> "qr_", action |-> "qr"],
     [tag |-> "refresh_stats_", action |-> "refresh_stats"]}

\* this step handled a button press
ButtonStep == last'.op = "button_callback"

\* the press was not acknowledged: query.answer() raised
Unacknowledged == last'.raised /\ last'.route = "none"

\* the press was dispatched to the action its tag names and to no other, and
\* the action ran against what follows the tag in the payload: the copy and
\* QR actions on that URL, the statistics actions with at most one request,
\* for that URL's short id
DispatchedByTag ==
    LET data == last'.text IN
    /\ \A b \in ButtonTags :
           startswith(data, b.tag) =>
               /\ last'.route = b.action
               /\ last'.target = SubSeq(data, Len(b.tag) + 1, Len(data))
    /\ (\A b \in ButtonTags : ~startswith(data, b.tag)) => last'.route = "none"
    /\ last'.requests = <<>>
    /\ \A i \in DOMAIN last'.stats_requests :
           /\ last'.route \in {"stats", "refresh_stats"}
           /\ last'.stats_requests[i].stats = ShortId(last'.target)

\* no button press changes the bulk flag or the store
ButtonFrame == expecting_bulk' = expecting_bulk /\ user_stats' = user_stats

\* C12 as stated: a button press with payload tag+URL is dispatched to
\* exactly one action, the one named by the tag, and that action runs
\* against exactly the URL that follows the tag; no button press changes the
\* bulk flag or the store.
C12_AsStated == [][ButtonStep => (DispatchedByTag /\ ButtonFrame)]_vars

\* C12 amended: the same for a press that has been acknowledged; when the
\* acknowledgement raises, no action runs; the flag and the store are left
\* alone in either case.
C12_ButtonDispatch ==
    [][ButtonStep =>
           /\ ButtonFrame
           /\ IF Unacknowledged
              THEN last'.stats_requests = <<>> /\ last'.target = ""
              ELSE DispatchedByTag]_vars

\* C12 witness: the payload qr_https://example.com, pressed by a user whose
\* bulk flag is set and whose counter is 1, sent a QR code for exactly
\* https://example.com and left flag and counter as they were.
C12_Witness ==
    /\ last.op = "button_callback"
    /\ last.text = "qr_https://example.com"
    /\ last.route = "qr"
    /\ last.target = "https://example.com"
    /\ last.reply = "qr_sent"
    /\ expecting_bulk[last.user]
    /\ Shortened(user_stats, last.user) = 1

\* C13 as stated: any exception raised at any step of handling a button
\* press (acknowledging it, editing the message, fetching stats, generating
\* or sending the QR image, reporting the error itself) is caught inside the
\* handler and reported as an error message truncated to 100 characters; no
\* exception leaves the button handler.
C13_AsStated ==
    last.op = "button_callback" =>
        /\ ~last.raised
        /\ Len(last.error) <= Len("Error: ") + ExcTextLimit

\* the calls a batch of this text makes when it is processed to its end
ExpectedRequests(t) ==
    [i \in 1..Len(ValidOf[t]) |-> ShortenParams(ValidOf[t][i], "")]

\* the bound C14 puts on every run but a bulk batch's: a bare-URL message
\* and a /custom command issue at most one shorten call, a /stats command
\* and a stats or refresh button press at most one stats call
AtMostOneCall ==
    /\ last.op # "init" =>
           /\ Len(last.stats_requests) <= 1
           /\ last.stats_requests # <<>> =>
                  \/ last.op = "stats_command"
                  \/ last.op = "button_callback"
                         /\ last.route \in {"stats", "refresh_stats"}
    /\ (last.op \in {"handle_url", "custom_command"} /\ last.route # "bulk") =>
           Len(last.requests) <= 1

\* C14 as stated: remote failures are never retried: one bare-URL message or
\* one /custom command issues at most one shorten call, one bulk batch
\* issues exactly one shorten call per valid URL, and one /stats command or
\* stats/refresh button press issues at most one stats call.
C14_AsStated ==
    /\ AtMostOneCall
    /\ (last.op = "handle_url" /\ last.route = "bulk") =>
           last.requests = ExpectedRequests(last.text)

\* C14 amended: the same, a bulk batch issuing at most one shorten call per
\* valid URL: exactly one each when it is processed to its report, none
\* when it is refused or its interim message cannot be sent.
C14_NoRetry ==
    /\ AtMostOneCall
    /\ (last.op = "handle_url" /\ last.route = "bulk") =>
           IF last.reply = "report"
           THEN last.requests = ExpectedRequests(last.text)
           ELSE last.requests = <<>>

\* C14 witness: a batch of three valid URLs whose second call failed was
\* processed with three calls, one for each URL.
C14_Witness ==
    /\ last.op = "handle_url"
    /\ last.route = "bulk"
    /\ last.results = <<TRUE, FALSE, TRUE>>
    /\ Len(last.requests) = 3
    /\ last.requests = ExpectedRequests(last.text)

(***************************************************************************)
(* Properties of /mystats, checked under SpecMystats.                      *)
(***************************************************************************)
\* C15: /mystats reads the store without modifying it and labels the user
\* by the stored urls_shortened n: Beginner when n < 5, Regular when
\* 5 <= n <= 50, Pro when n > 50; a user with no entry is shown a count of
\* 0 and never-used timestamps.
C15_Step ==
    last'.op = "mystats_command" =>
        LET u == last'.user
            shown == last'.shown[1]
        IN /\ user_stats' = user_stats
           /\ last'.requests = <<>> /\ last'.stats_requests = <<>>
           /\ IF u \in DOMAIN user_stats
              THEN LET n == user_stats[u].urls_shortened IN
                   /\ shown.count = n
                   /\ n < 5 => shown.rank = "Beginner"
                   /\ (5 <= n /\ n <= 50) => shown.rank = "Regular"
                   /\ n > 50 => shown.rank = "Pro"
              ELSE /\ shown.count = 0
                   /\ shown.first = "Never"
                   /\ shown.last = "Never"

C15_MystatsLabels == [][C15_Step]_vars

\* C15 witness: a user with 50 shortened URLs was shown as Regular while
\* the other user, with 51, has an entry of its own.
C15_Witness ==
    /\ last.op = "mystats_command"
    /\ last.user \in DOMAIN user_stats
    /\ user_stats[last.user].urls_shortened = 50
    /\ last.shown[1].count = 50
    /\ last.shown[1].rank = "Regular"
    /\ \E v \in DOMAIN user_stats : user_stats[v].urls_shortened = 51

\* the operations of the /qr run that sent its interim message
QrOps == last.ops

\* C17 as stated: in /qr, once the argument passes validation and the
\* interim message is created, every run ends in exactly one of two
\* outcomes: the interim message is deleted and the QR image is sent, or the
\* interim message is edited to show an error; the interim message is never
\* edited after it has been deleted, also when sending the image fails.
C17_AsStated ==
    (last.op = "qr_command" /\ QrOps # <<>>) =>
        LET deleted == \E i \in DOMAIN QrOps : QrOps[i] = Op("delete", TRUE)
            sent == \E i \in DOMAIN QrOps : QrOps[i] = Op("photo", TRUE)
            edit == \E i \in DOMAIN QrOps : QrOps[i].op = "edit"
        IN /\ (deleted /\ sent) # edit
           /\ \A i, j \in DOMAIN QrOps :
                  (i < j /\ QrOps[i] = Op("delete", TRUE)) => QrOps[j].op # "edit"

(***************************************************************************)
(* Properties of interleaved handlers, checked under SpecInterleaved.      *)
(***************************************************************************)
\* the tasks of user u that satisfy P
TasksOf(u, P(_)) == {t \in DOMAIN tasks : tasks[t].user = u /\ P(tasks[t])}

RoutedToBulk(task) == task.route = "bulk"
HasSetFlag(task) == task.handler = "bulk_command" /\ task.pc > 2
HasCounted(task) == task.wrote /\ task.ok

\* C16: with handlers interleaving at their awaits, the flag's test and
\* clear and the store's read and write each run with no suspension in
\* between: per user, no more text messages are routed to bulk processing
\* than /bulk commands have set the flag (after one /bulk, at most one of
\* the later messages), and urls_shortened is the number of successful
\* shortens written, however the shortens overlap.
C16_AtomicBlocks ==
    \A u \in Users :
        /\ Cardinality(TasksOf(u, RoutedToBulk)) <= Cardinality(TasksOf(u, HasSetFlag))
        /\ Shortened(user_stats, u) = Cardinality(TasksOf(u, HasCounted))

\* C16 witness: after one /bulk two text messages of the same user are both
\* waiting for their final edit, one routed to bulk processing and the
\* other not, both shortened, and the counter is 2.
C16_Witness ==
    \E b, t1, t2 \in DOMAIN tasks :
        /\ t1 # t2
        /\ tasks[b].handler = "bulk_command" /\ tasks[b].user = 1
        /\ tasks[t1].handler = "handle_url" /\ tasks[t1].user = 1
        /\ tasks[t2].handler = "handle_url" /\ tasks[t2].user = 1
        /\ tasks[t1].pc = 7 /\ tasks[t2].pc = 7
        /\ tasks[t1].route = "bulk" /\ tasks[t2].route = "single"
        /\ tasks[t1].ok /\ tasks[t2].ok
        /\ user_stats[1].urls_shortened = 2

====
